---- MODULE Spec2Model ----
(***************************************************************************)
(* Model of check_releases.py: the concurrent repository-release checker.  *)
(*                                                                         *)
(* One "main" thread runs check_repo_releases and the __main__ block; one  *)
(* task per loaded item runs check_single_repo on a ThreadPoolExecutor with *)
(* max_workers worker threads.  The remote API is the environment: the     *)
(* answer to a request is chosen when the request returns.                 *)
(***************************************************************************)
EXTENDS Integers, Sequences, FiniteSets, TLC

(* Bounds of the model *)
NumRepos == 2
MaxWorkers == 2
(* Largest byte count for which the line estimate is checked by itself *)
MaxBytes == 400

(* Program constant: bytes per line of the language estimate *)
BYTES_PER_LINE == 35

VARIABLES
    mainPc,               \* position of the main thread
    file,                 \* the input file json_file names
    headers,              \* the request headers, built from github_token
    loadPath,             \* how the items were loaded: "json", "fallback", or "failed"
    max_workers,          \* the max_workers argument of check_repo_releases
    items,                \* data['items']: the loaded descriptors
    total,                \* len(items), as returned by check_repo_releases
    taskPc,               \* position of each check_single_repo task
    relResp,              \* response of the releases request of each task
    langResp,             \* lang_response of each task
    outcome,              \* branch check_single_repo took on the releases response
    languages_data,       \* languages_data of each task
    result,               \* what each future holds (return value or exception)
    printed,              \* progress messages each task has printed, in order
    relReq,               \* calls of requests.get(releases_api_url) per task
    langReq,              \* calls of requests.get(languages_url) per task
    print_lock,           \* 0 when free, else the task that holds it
    repos_with_releases,  \* the collected result list
    collected,            \* futures as_completed has yielded so far, in order
    output                \* repos_with_releases.json as written by __main__

vars == << mainPc, file, headers, loadPath, max_workers, items, total, taskPc, relResp, langResp, outcome,
           languages_data, result, printed, relReq, langReq, print_lock,
           repos_with_releases, collected, output >>

taskVars == << taskPc, relResp, langResp, outcome, languages_data, result,
               printed, relReq, langReq, print_lock >>

(* Arguments and inputs: no statement assigns them after the start *)
inputVars == << file, headers, max_workers >>

Tasks == 1..Len(items)

(***************************************************************************)
(* Inputs                                                                  *)
(***************************************************************************)

(* A descriptor: full_name identifies the repository (the position in the  *)
(* search result), languages_url is "" when the item has none.             *)
Item(n, lu) == [full_name |-> n, languages_url |-> lu]

RECURSIVE ItemLists(_)
ItemLists(n) ==
    IF n = 0 THEN { <<>> }
    ELSE LET shorter == ItemLists(n - 1)
         IN  shorter \cup
             { Append(s, Item(Len(s) + 1, lu)) :
                 s \in { t \in shorter : Len(t) = n - 1 }, lu \in {"", "url"} }

(* Elements of a decoded releases body: a release object with its asset    *)
(* list, or a JSON value that is not an object.                            *)
Release(as) == [isobj |-> TRUE, assets |-> as]
NotAnObject == [isobj |-> FALSE, assets |-> <<>>]

RelBodies ==
    { <<>>,
      << Release(<<>>) >>,
      << Release(<<"a">>) >>,
      << Release(<<"a">>), Release(<<>>), Release(<<"a", "b">>) >>,
      << Release(<<"a">>), NotAnObject >> }

(* A response of requests.get: status 0 stands for a raised               *)
(* RequestException (timeout, connection failure); remaining is the value  *)
(* of the X-RateLimit-Remaining header, "absent" when there is none;       *)
(* decodable is FALSE when response.json() raises.  The bodies of the      *)
(* releases endpoint are decodable JSON: whether the except clause of      *)
(* line 111 catches a decoding error depends on the installed requests     *)
(* version, and either way the task ends as it does on a transport failure *)
(* or on a body that is not a list of objects, which are both modelled.    *)
Resp(st, dec, b, rem) ==
    [status |-> st, decodable |-> dec, body |-> b, remaining |-> rem]

NoResp == Resp(-1, FALSE, <<>>, "absent")

RelResponses ==
    { Resp(0, FALSE, <<>>, "absent") }
    \cup { Resp(200, TRUE, b, "absent") : b \in RelBodies }
    \cup { Resp(403, FALSE, <<>>, h) : h \in {"absent", "0", "5"} }
    \cup { Resp(404, FALSE, <<>>, "absent") }

(* An entry of a decoded languages body: isnum is FALSE when the value is  *)
(* not a number (byte_count / 35 raises TypeError).                        *)
LangEntry(n, b) == [name |-> n, isnum |-> TRUE, bytes |-> b]
BadLangEntry(n) == [name |-> n, isnum |-> FALSE, bytes |-> 0]

LangBodies ==
    { <<>>,
      << LangEntry("Go", 350) >>,
      << LangEntry("Go", 52), LangEntry("C", 18) >>,
      << LangEntry("Go", 350), BadLangEntry("C") >> }

LangResponses ==
    { Resp(0, FALSE, <<>>, "absent") }
    \cup { Resp(200, TRUE, b, "absent") : b \in LangBodies }
    \cup { Resp(200, FALSE, <<>>, "absent") }
    \cup { Resp(404, FALSE, <<>>, "absent") }

(***************************************************************************)
(* Pure computations of check_single_repo                                  *)
(***************************************************************************)

(* Faulty variant of HasAssets: every release counts, whatever its assets *)
HasAssetsAnyRelease(r) == TRUE

(* r.get('assets') and len(r.get('assets', [])) > 0 *)
HasAssets(r) == Len(r.assets) > 0

(* The list comprehension of line 49, element by element from the left:    *)
(* r.get on an element that is not an object raises AttributeError.        *)
RECURSIVE ReleasesWithAssets(_, _)
ReleasesWithAssets(rs, acc) ==
    IF rs = <<>> THEN [raised |-> FALSE, list |-> acc]
    ELSE IF ~Head(rs).isobj THEN [raised |-> TRUE, list |-> <<>>]
    ELSE ReleasesWithAssets(Tail(rs),
                            IF HasAssets(Head(rs)) THEN Append(acc, Head(rs)) ELSE acc)

(* Faulty variant of IsFound: the empty list is reported too *)
IsFoundAlways(list) == Len(list) >= 0

(* if releases_with_assets and len(releases_with_assets) > 0 *)
IsFound(list) == Len(list) > 0

(* Faulty variant of HasRateLimitHeader: tests the value, not the presence *)
HasNonZeroRemaining(r) == r.remaining \notin {"absent", "0"}

(* 'X-RateLimit-Remaining' in response.headers *)
HasRateLimitHeader(r) == r.remaining # "absent"

Outcome(k, c, st, rem) == [kind |-> k, count |-> c, status |-> st, remaining |-> rem]
NoOutcome == Outcome("none", 0, 0, "")

(* The branch check_single_repo takes on the releases response; "raise"   *)
(* is an exception that the except clause of line 111 does not catch.      *)
ClassifyReleases(r) ==
    IF r.status = 0 THEN Outcome("transport", 0, 0, "")
    ELSE IF r.status = 200 THEN
        LET f == ReleasesWithAssets(r.body, <<>>)
        IN  IF f.raised THEN Outcome("raise", 0, 0, "")
            ELSE IF IsFound(f.list) THEN Outcome("found", Len(f.list), 200, "")
            ELSE Outcome("notfound", 0, 200, "")
    ELSE IF r.status = 403 THEN
        IF HasRateLimitHeader(r) THEN Outcome("ratelimited", 0, 403, r.remaining)
                                 ELSE Outcome("forbidden", 0, 403, "")
    ELSE Outcome("httperror", 0, r.status, "")

(* Faulty variant of LineCount: the quotient is truncated *)
LineCountTruncated(byte_count) == byte_count \div BYTES_PER_LINE

(* round(byte_count / BYTES_PER_LINE) for byte_count >= 0: the quotient is *)
(* never halfway between two integers because BYTES_PER_LINE is odd.       *)
LineCount(byte_count) == (2 * byte_count + BYTES_PER_LINE) \div (2 * BYTES_PER_LINE)

(* The loop of lines 65-70 over languages_bytes.items(): entries converted *)
(* before one that raises stay in languages_data.                          *)
RECURSIVE ConvertLanguages(_, _)
ConvertLanguages(es, acc) ==
    IF es = <<>> THEN [raised |-> FALSE, data |-> acc]
    ELSE IF ~Head(es).isnum THEN [raised |-> TRUE, data |-> acc]
    ELSE ConvertLanguages(Tail(es),
            Append(acc, [name  |-> Head(es).name,
                         bytes |-> Head(es).bytes,
                         lines |-> LineCount(Head(es).bytes)]))

(* What a future holds *)
Pending == [kind |-> "pending", name |-> 0, releases_count |-> 0, languages |-> <<>>]
ReturnNone == [kind |-> "none", name |-> 0, releases_count |-> 0, languages |-> <<>>]
Raised == [kind |-> "exception", name |-> 0, releases_count |-> 0, languages |-> <<>>]
(* Faulty variant of ReturnFound: releases_count is the total number of    *)
(* releases of the response.                                               *)
ReturnFoundTotalCount(i) ==
    [kind |-> "found", name |-> items[i].full_name,
     releases_count |-> Len(relResp[i].body), languages |-> languages_data[i]]

ReturnFound(i) ==
    [kind |-> "found", name |-> items[i].full_name,
     releases_count |-> outcome[i].count, languages |-> languages_data[i]]

(* A printed progress message *)
Msg(k, n, t) == [kind |-> k, num |-> n, text |-> t]

OutcomeMsg(o) ==
    IF o.kind = "found" THEN Msg("found", o.count, "")
    ELSE IF o.kind = "notfound" THEN Msg("notfound", 0, "")
    ELSE IF o.kind = "ratelimited" THEN Msg("ratelimited", 0, o.remaining)
    ELSE IF o.kind = "forbidden" THEN Msg("forbidden", 0, "")
    ELSE IF o.kind = "httperror" THEN Msg("httperror", o.status, "")
    ELSE Msg("transport", 0, "")

(***************************************************************************)
(* repos_with_releases.sort(key=releases_count, reverse=True): list.sort   *)
(* reverses the list, sorts it ascending and stably (binary insertion for  *)
(* short lists), and reverses it again.                                    *)
(***************************************************************************)
Reverse(s) == [k \in 1..Len(s) |-> s[Len(s) + 1 - k]]

RECURSIVE InsertAsc(_, _)
InsertAsc(s, e) ==
    IF s = <<>> THEN << e >>
    ELSE IF e.releases_count < Head(s).releases_count THEN << e >> \o s
    ELSE << Head(s) >> \o InsertAsc(Tail(s), e)

RECURSIVE SortAsc(_)
SortAsc(s) ==
    IF s = <<>> THEN <<>>
    ELSE InsertAsc(SortAsc(SubSeq(s, 1, Len(s) - 1)), s[Len(s)])

(* Faulty variant of SortDesc: ascending sort reversed, which reverses ties *)
SortDescUnstable(s) == Reverse(SortAsc(s))

SortDesc(s) == Reverse(SortAsc(Reverse(s)))

(***************************************************************************)
(* Initial state: check_repo_releases is about to read the file.           *)
(***************************************************************************)
(* The input file: unreadable (open or decoding raises), a JSON document  *)
(* with its items, or text that json.load rejects and from which the       *)
(* regular expression of line 160 extracts items, each with a non-empty    *)
(* languages_url.                                                          *)
File(k, its) == [kind |-> k, items |-> its]

Files ==
    { File("unreadable", <<>>) }
    \cup { File("json", its) : its \in ItemLists(NumRepos) }
    \cup { File("malformed", its) :
             its \in { l \in ItemLists(NumRepos) :
                         \A k \in 1..Len(l) : l[k].languages_url # "" } }

NoOutput == [written |-> FALSE, found |-> 0, total |-> 0, repos |-> <<>>]

Init ==
    /\ mainPc = "load"
    /\ file \in Files
    /\ headers \in { {}, {"Authorization"} }
    /\ loadPath = "none"
    /\ max_workers \in 1..MaxWorkers
    /\ items = <<>>
    /\ total = 0
    /\ taskPc = <<>>
    /\ relResp = <<>>
    /\ langResp = <<>>
    /\ outcome = <<>>
    /\ languages_data = <<>>
    /\ result = <<>>
    /\ printed = <<>>
    /\ relReq = <<>>
    /\ langReq = <<>>
    /\ print_lock = 0
    /\ repos_with_releases = <<>>
    /\ collected = <<>>
    /\ output = NoOutput

(***************************************************************************)
(* check_repo_releases: loading                                            *)
(***************************************************************************)

(* items = data.get('items', []); total = len(items); one future per item, *)
(* none submitted yet.                                                     *)
Dispatch(its, path) ==
    /\ loadPath' = path
    /\ items' = its
    /\ total' = Len(its)
    /\ taskPc' = [i \in 1..Len(its) |-> "unsubmitted"]
    /\ relResp' = [i \in 1..Len(its) |-> NoResp]
    /\ langResp' = [i \in 1..Len(its) |-> NoResp]
    /\ outcome' = [i \in 1..Len(its) |-> NoOutcome]
    /\ languages_data' = [i \in 1..Len(its) |-> <<>>]
    /\ result' = [i \in 1..Len(its) |-> Pending]
    /\ printed' = [i \in 1..Len(its) |-> <<>>]
    /\ relReq' = [i \in 1..Len(its) |-> 0]
    /\ langReq' = [i \in 1..Len(its) |-> 0]
    /\ mainPc' = IF Len(its) = 0 THEN "collect" ELSE "submit"
    /\ UNCHANGED << inputVars, print_lock, repos_with_releases, collected, output >>

(* json.load succeeds *)
LoadJson ==
    /\ mainPc = "load"
    /\ file.kind = "json"
    /\ Dispatch(file.items, "json")

(* Faulty variant of LoadFallback: the regular expression is also run on   *)
(* a file that json.load accepts.                                          *)
LoadFallbackAnyFile ==
    /\ mainPc = "load"
    /\ file.kind # "unreadable"
    /\ IF file.items = <<>>
       THEN /\ mainPc' = "loadfailed"
            /\ loadPath' = "failed"
            /\ UNCHANGED << inputVars, items, total, taskVars, repos_with_releases,
                            collected, output >>
       ELSE Dispatch(file.items, "fallback")

(* json.load raises JSONDecodeError: the regular expression extracts the   *)
(* items; every extracted item has a non-empty languages_url.              *)
LoadFallback ==
    /\ mainPc = "load"
    /\ file.kind = "malformed"
    /\ IF file.items = <<>>
       THEN /\ mainPc' = "loadfailed"
            /\ loadPath' = "failed"
            /\ UNCHANGED << inputVars, items, total, taskVars, repos_with_releases,
                            collected, output >>
       ELSE Dispatch(file.items, "fallback")

(* open or json.load raises another exception: return [], 0 *)
LoadUnreadable ==
    /\ mainPc = "load"
    /\ file.kind = "unreadable"
    /\ mainPc' = "loadfailed"
    /\ loadPath' = "failed"
    /\ UNCHANGED << inputVars, items, total, taskVars, repos_with_releases, collected, output >>

(***************************************************************************)
(* check_repo_releases: the worker pool                                    *)
(***************************************************************************)

(* executor.submit of the next item, in the order of enumerate(items, 1) *)
Submit ==
    /\ mainPc = "submit"
    /\ \E k \in Tasks :
          /\ taskPc[k] = "unsubmitted"
          /\ \A j \in 1..(k - 1) : taskPc[j] # "unsubmitted"
          /\ taskPc' = [taskPc EXCEPT ![k] = "queued"]
          /\ mainPc' = IF k = Len(items) THEN "collect" ELSE "submit"
    /\ UNCHANGED << inputVars, loadPath, items, total, relResp, langResp, outcome, languages_data,
                    result, printed, relReq, langReq, print_lock,
                    repos_with_releases, collected, output >>

Running == { i \in Tasks : taskPc[i] \notin {"unsubmitted", "queued", "done"} }

(* Faulty variant of CanStart: the pool starts a thread for every queued   *)
(* work item.                                                              *)
CanStartUnbounded(i) ==
    /\ taskPc[i] = "queued"
    /\ \A j \in 1..(i - 1) : taskPc[j] # "queued"

(* A worker thread takes the oldest queued work item; the pool has at most *)
(* max_workers threads, each running one task at a time.                   *)
CanStart(i) ==
    /\ taskPc[i] = "queued"
    /\ \A j \in 1..(i - 1) : taskPc[j] # "queued"
    /\ Cardinality(Running) < max_workers

StartTask(i) ==
    /\ CanStart(i)
    /\ taskPc' = [taskPc EXCEPT ![i] = "begin"]
    /\ UNCHANGED << mainPc, inputVars, loadPath, items, total, relResp, langResp, outcome,
                    languages_data, result, printed, relReq, langReq, print_lock,
                    repos_with_releases, collected, output >>

(***************************************************************************)
(* check_single_repo(item, index, total, headers), task i                  *)
(***************************************************************************)
mainVars == << mainPc, inputVars, loadPath, items, total, repos_with_releases, collected, output >>

(* with print_lock: print("[index/total] ...") -- the lock is taken and    *)
(* the line printed                                                        *)
PrintStart(i) ==
    /\ taskPc[i] = "begin"
    /\ print_lock = 0
    /\ print_lock' = i
    /\ printed' = [printed EXCEPT ![i] = Append(@, Msg("start", i, ""))]
    /\ taskPc' = [taskPc EXCEPT ![i] = "startHeld"]
    /\ UNCHANGED << mainVars, relResp, langResp, outcome, languages_data, result,
                    relReq, langReq >>

(* Faulty variant of IssueReleases: the request is made inside the with    *)
(* block, the lock still held.                                             *)
IssueReleasesHoldingLock(i) ==
    /\ taskPc[i] = "startHeld"
    /\ relReq' = [relReq EXCEPT ![i] = @ + 1]
    /\ taskPc' = [taskPc EXCEPT ![i] = "relWait"]
    /\ UNCHANGED << mainVars, relResp, langResp, outcome, languages_data, result,
                    printed, langReq, print_lock >>

(* the with block ends; requests.get(releases_api_url, timeout=10) is called *)
IssueReleases(i) ==
    /\ taskPc[i] = "startHeld"
    /\ print_lock' = 0
    /\ relReq' = [relReq EXCEPT ![i] = @ + 1]
    /\ taskPc' = [taskPc EXCEPT ![i] = "relWait"]
    /\ UNCHANGED << mainVars, relResp, langResp, outcome, languages_data, result,
                    printed, langReq >>

(* The releases request answers, times out or fails; the response is       *)
(* classified.  An exception that is no RequestException leaves the        *)
(* function: the future holds it.                                          *)
RecvReleases(i) ==
    /\ taskPc[i] = "relWait"
    /\ \E r \in RelResponses :
          LET o == ClassifyReleases(r)
          IN  /\ relResp' = [relResp EXCEPT ![i] = r]
              /\ outcome' = [outcome EXCEPT ![i] = o]
              /\ IF o.kind = "raise"
                 THEN /\ taskPc' = [taskPc EXCEPT ![i] = "done"]
                      /\ result' = [result EXCEPT ![i] = Raised]
                 ELSE /\ taskPc' = [taskPc EXCEPT ![i] = "outLock"]
                      /\ UNCHANGED result
    /\ UNCHANGED << mainVars, langResp, languages_data, printed, relReq, langReq,
                    print_lock >>

(* with print_lock: print(the outcome line) *)
PrintOutcome(i) ==
    /\ taskPc[i] = "outLock"
    /\ print_lock = 0
    /\ print_lock' = i
    /\ printed' = [printed EXCEPT ![i] = Append(@, OutcomeMsg(outcome[i]))]
    /\ taskPc' = [taskPc EXCEPT ![i] = "outHeld"]
    /\ UNCHANGED << mainVars, relResp, langResp, outcome, languages_data, result,
                    relReq, langReq >>

(* Faulty variant of WantsLanguages: the languages request does not depend *)
(* on the outcome of the releases request.                                 *)
WantsLanguagesAnyOutcome(i) == items[i].languages_url # ""

(* if languages_url: requests.get(languages_url, timeout=10) *)
WantsLanguages(i) == outcome[i].kind = "found" /\ items[i].languages_url # ""

IssueLanguages(i) ==
    /\ taskPc[i] = "outHeld"
    /\ WantsLanguages(i)
    /\ print_lock' = 0
    /\ langReq' = [langReq EXCEPT ![i] = @ + 1]
    /\ taskPc' = [taskPc EXCEPT ![i] = "langWait"]
    /\ UNCHANGED << mainVars, relResp, langResp, outcome, languages_data, result,
                    printed, relReq >>

(* Faulty variant of ReturnFoundNoLanguages: the worker appends its dict   *)
(* to the shared list itself.                                              *)
ReturnFoundAppendsItself(i) ==
    /\ taskPc[i] = "outHeld"
    /\ outcome[i].kind = "found"
    /\ ~WantsLanguages(i)
    /\ print_lock' = 0
    /\ result' = [result EXCEPT ![i] = ReturnFound(i)]
    /\ repos_with_releases' = Append(repos_with_releases, ReturnFound(i))
    /\ taskPc' = [taskPc EXCEPT ![i] = "done"]
    /\ UNCHANGED << mainPc, inputVars, loadPath, items, total, collected, output,
                    relResp, langResp, outcome, languages_data, printed,
                    relReq, langReq >>

(* Found, languages_url empty: return the dict with languages {} *)
ReturnFoundNoLanguages(i) ==
    /\ taskPc[i] = "outHeld"
    /\ outcome[i].kind = "found"
    /\ ~WantsLanguages(i)
    /\ print_lock' = 0
    /\ result' = [result EXCEPT ![i] = ReturnFound(i)]
    /\ taskPc' = [taskPc EXCEPT ![i] = "done"]
    /\ UNCHANGED << mainVars, relResp, langResp, outcome, languages_data, printed,
                    relReq, langReq >>

(* Faulty variant of ReturnNoEntry: a transport failure is retried once *)
ReturnNoEntryRetry(i) ==
    /\ taskPc[i] = "outHeld"
    /\ outcome[i].kind # "found"
    /\ print_lock' = 0
    /\ IF outcome[i].kind = "transport" /\ relReq[i] < 2
       THEN /\ relReq' = [relReq EXCEPT ![i] = @ + 1]
            /\ taskPc' = [taskPc EXCEPT ![i] = "relWait"]
            /\ UNCHANGED result
       ELSE /\ result' = [result EXCEPT ![i] = ReturnNone]
            /\ taskPc' = [taskPc EXCEPT ![i] = "done"]
            /\ UNCHANGED relReq
    /\ UNCHANGED << mainVars, relResp, langResp, outcome, languages_data, printed,
                    langReq >>

(* not found, 403, other status, RequestException: return None *)
ReturnNoEntry(i) ==
    /\ taskPc[i] = "outHeld"
    /\ outcome[i].kind # "found"
    /\ print_lock' = 0
    /\ result' = [result EXCEPT ![i] = ReturnNone]
    /\ taskPc' = [taskPc EXCEPT ![i] = "done"]
    /\ UNCHANGED << mainVars, relResp, langResp, outcome, languages_data, printed,
                    relReq, langReq >>

(* The languages request returns.  A raised exception (transport, json())  *)
(* goes to the except branch; a status other than 200 skips the block; a   *)
(* 200 is converted entry by entry.                                        *)
LangCallRaises(l) == l.status = 0 \/ (l.status = 200 /\ ~l.decodable)

RecvLanguages(i) ==
    /\ taskPc[i] = "langWait"
    /\ \E l \in LangResponses :
          /\ langResp' = [langResp EXCEPT ![i] = l]
          /\ IF LangCallRaises(l)
             THEN /\ taskPc' = [taskPc EXCEPT ![i] = "langErrLock"]
                  /\ UNCHANGED << languages_data, result >>
             ELSE IF l.status # 200
             THEN /\ taskPc' = [taskPc EXCEPT ![i] = "done"]
                  /\ result' = [result EXCEPT ![i] = ReturnFound(i)]
                  /\ UNCHANGED languages_data
             ELSE LET c == ConvertLanguages(l.body, <<>>)
                  IN  /\ languages_data' = [languages_data EXCEPT ![i] = c.data]
                      /\ taskPc' = [taskPc EXCEPT ![i] =
                                       IF c.raised THEN "langErrLock" ELSE "langInfoLock"]
                      /\ UNCHANGED result
    /\ UNCHANGED << mainVars, relResp, outcome, printed, relReq, langReq, print_lock >>

LangLinesPrinted(i) ==
    Cardinality({ k \in DOMAIN printed[i] : printed[i][k].kind = "langline" })

(* Faulty variant of PrintLangInfo: the header is printed without taking   *)
(* the lock.                                                               *)
PrintLangInfoUnlocked(i) ==
    /\ taskPc[i] = "langInfoLock"
    /\ printed' = [printed EXCEPT ![i] = Append(@, Msg("langheader", 0, ""))]
    /\ taskPc' = [taskPc EXCEPT ![i] = "langInfoHeld"]
    /\ UNCHANGED << mainVars, relResp, langResp, outcome, languages_data, result,
                    relReq, langReq, print_lock >>

(* with print_lock: print("语言信息:") *)
PrintLangInfo(i) ==
    /\ taskPc[i] = "langInfoLock"
    /\ print_lock = 0
    /\ print_lock' = i
    /\ printed' = [printed EXCEPT ![i] = Append(@, Msg("langheader", 0, ""))]
    /\ taskPc' = [taskPc EXCEPT ![i] = "langInfoHeld"]
    /\ UNCHANGED << mainVars, relResp, langResp, outcome, languages_data, result,
                    relReq, langReq >>

(* one line per language, the lock still held *)
PrintLangLine(i) ==
    /\ taskPc[i] = "langInfoHeld"
    /\ LangLinesPrinted(i) < Len(languages_data[i])
    /\ LET d == languages_data[i][LangLinesPrinted(i) + 1]
       IN  printed' = [printed EXCEPT ![i] = Append(@, Msg("langline", d.lines, d.name))]
    /\ UNCHANGED << mainVars, taskPc, relResp, langResp, outcome, languages_data,
                    result, relReq, langReq, print_lock >>

(* the block ends; return the dict *)
EndLangInfo(i) ==
    /\ taskPc[i] = "langInfoHeld"
    /\ LangLinesPrinted(i) = Len(languages_data[i])
    /\ print_lock' = 0
    /\ result' = [result EXCEPT ![i] = ReturnFound(i)]
    /\ taskPc' = [taskPc EXCEPT ![i] = "done"]
    /\ UNCHANGED << mainVars, relResp, langResp, outcome, languages_data, printed,
                    relReq, langReq >>

(* except Exception: with print_lock: print("! 获取语言信息失败") *)
PrintLangError(i) ==
    /\ taskPc[i] = "langErrLock"
    /\ print_lock = 0
    /\ print_lock' = i
    /\ printed' = [printed EXCEPT ![i] = Append(@, Msg("langfailed", 0, ""))]
    /\ taskPc' = [taskPc EXCEPT ![i] = "langErrHeld"]
    /\ UNCHANGED << mainVars, relResp, langResp, outcome, languages_data, result,
                    relReq, langReq >>

(* the block ends; return the dict with languages_data as it stands *)
EndLangError(i) ==
    /\ taskPc[i] = "langErrHeld"
    /\ print_lock' = 0
    /\ result' = [result EXCEPT ![i] = ReturnFound(i)]
    /\ taskPc' = [taskPc EXCEPT ![i] = "done"]
    /\ UNCHANGED << mainVars, relResp, langResp, outcome, languages_data, printed,
                    relReq, langReq >>

(***************************************************************************)
(* check_repo_releases: collecting, sorting, returning                     *)
(***************************************************************************)
Range(s) == { s[k] : k \in DOMAIN s }

(* if result: *)
Truthy(res) == res.kind = "found"

(* as_completed yields a finished future that it has not yielded yet (the  *)
(* futures already finished at its call come in set order); the result is  *)
(* appended when truthy.                                                   *)
CollectResult(i) ==
    /\ mainPc = "collect"
    /\ taskPc[i] = "done"
    /\ i \notin Range(collected)
    /\ result[i].kind # "exception"
    /\ collected' = Append(collected, i)
    /\ repos_with_releases' =
          IF Truthy(result[i]) THEN Append(repos_with_releases, result[i])
                               ELSE repos_with_releases
    /\ UNCHANGED << mainPc, inputVars, loadPath, items, total, output, taskVars >>

(* future.result() re-raises the exception of the task: it leaves the loop *)
(* and the with block, whose exit waits for the pool (shutdown(wait=True)) *)
CollectException(i) ==
    /\ mainPc = "collect"
    /\ taskPc[i] = "done"
    /\ i \notin Range(collected)
    /\ result[i].kind = "exception"
    /\ collected' = Append(collected, i)
    /\ mainPc' = "unwinding"
    /\ UNCHANGED << inputVars, loadPath, items, total, repos_with_releases, output, taskVars >>

(* shutdown(wait=True) returns once every submitted task has run; the      *)
(* exception then leaves check_repo_releases and ends the program.         *)
Unwind ==
    /\ mainPc = "unwinding"
    /\ \A i \in Tasks : taskPc[i] = "done"
    /\ mainPc' = "raised"
    /\ UNCHANGED << inputVars, loadPath, items, total, repos_with_releases, collected, output, taskVars >>

(* Faulty variant of AllCollected: the loop ends after the first future *)
SomeCollected == \E i \in Tasks : i \in Range(collected)

(* as_completed is exhausted when it has yielded every future *)
AllCollected == \A i \in Tasks : i \in Range(collected)

(* the loop and the with block end; the summary header is printed *)
ExitPool ==
    /\ mainPc = "collect"
    /\ AllCollected
    /\ mainPc' = "sort"
    /\ UNCHANGED << inputVars, loadPath, items, total, repos_with_releases, collected, output, taskVars >>

(* Faulty variant of Sort: the list is left in collection order *)
SortOmitted ==
    /\ mainPc = "sort"
    /\ mainPc' = "print"
    /\ UNCHANGED << inputVars, loadPath, items, total, repos_with_releases, collected,
                    output, taskVars >>

(* repos_with_releases.sort(key=..., reverse=True) *)
Sort ==
    /\ mainPc = "sort"
    /\ repos_with_releases' = SortDesc(repos_with_releases)
    /\ mainPc' = "print"
    /\ UNCHANGED << inputVars, loadPath, items, total, collected, output, taskVars >>

(* the sorted list is printed; return repos_with_releases, total *)
Return ==
    /\ mainPc = "print"
    /\ mainPc' = "returned"
    /\ UNCHANGED << inputVars, loadPath, items, total, repos_with_releases, collected, output, taskVars >>

(***************************************************************************)
(* __main__                                                                *)
(***************************************************************************)

(* Faulty variant of SaveOutput: the total counts the probes that ended    *)
(* with an entry.                                                          *)
SaveOutputTotalOfFound ==
    /\ mainPc = "returned"
    /\ repos_with_releases # <<>>
    /\ output' = [written |-> TRUE, found |-> Len(repos_with_releases),
                  total |-> Len(repos_with_releases), repos |-> repos_with_releases]
    /\ mainPc' = "exit"
    /\ UNCHANGED << inputVars, loadPath, items, total, repos_with_releases, collected, taskVars >>

(* if repos: write {'__comment': found/total, 'repos': repos} *)
SaveOutput ==
    /\ mainPc = "returned"
    /\ repos_with_releases # <<>>
    /\ output' = [written |-> TRUE, found |-> Len(repos_with_releases),
                  total |-> total, repos |-> repos_with_releases]
    /\ mainPc' = "exit"
    /\ UNCHANGED << inputVars, loadPath, items, total, repos_with_releases, collected, taskVars >>

(* repos is empty: nothing is written *)
SkipOutput ==
    /\ \/ mainPc = "returned" /\ repos_with_releases = <<>>
       \/ mainPc = "loadfailed"
    /\ mainPc' = "exit"
    /\ UNCHANGED << inputVars, loadPath, items, total, repos_with_releases, collected, output, taskVars >>

Next ==
    \/ LoadJson
    \/ LoadFallback
    \/ LoadUnreadable
    \/ Submit
    \/ \E i \in Tasks : StartTask(i)
    \/ \E i \in Tasks : PrintStart(i)
    \/ \E i \in Tasks : IssueReleases(i)
    \/ \E i \in Tasks : RecvReleases(i)
    \/ \E i \in Tasks : PrintOutcome(i)
    \/ \E i \in Tasks : IssueLanguages(i)
    \/ \E i \in Tasks : ReturnFoundNoLanguages(i)
    \/ \E i \in Tasks : ReturnNoEntry(i)
    \/ \E i \in Tasks : RecvLanguages(i)
    \/ \E i \in Tasks : PrintLangInfo(i)
    \/ \E i \in Tasks : PrintLangLine(i)
    \/ \E i \in Tasks : EndLangInfo(i)
    \/ \E i \in Tasks : PrintLangError(i)
    \/ \E i \in Tasks : EndLangError(i)
    \/ \E i \in Tasks : CollectResult(i)
    \/ \E i \in Tasks : CollectException(i)
    \/ Unwind
    \/ ExitPool
    \/ Sort
    \/ Return
    \/ SaveOutput
    \/ SkipOutput

Spec == Init /\ [][Next]_vars

(* Every thread that can take a step eventually takes one: the operating   *)
(* system schedules every runnable thread, and every network call returns  *)
(* (it answers or times out after 10 seconds).                             *)
FairSpec == Spec /\ WF_vars(Next)

(***************************************************************************)
(* Properties                                                              *)
(***************************************************************************)

(* check_repo_releases has returned report and total after a dispatch *)
Returned == mainPc = "returned" \/ (mainPc = "exit" /\ Len(collected) = Len(items) /\ items # <<>>)

(* The releases request of task i answered 200 with a list holding at      *)
(* least one release whose asset list is not empty.                        *)
Qualifies(i) ==
    /\ relResp[i].status = 200
    /\ \E k \in DOMAIN relResp[i].body :
          relResp[i].body[k].isobj /\ relResp[i].body[k].assets # <<>>

EntriesOf(i) ==
    { k \in DOMAIN repos_with_releases :
        repos_with_releases[k].name = items[i].full_name }

AllDoneAndCollected ==
    \A i \in Tasks : taskPc[i] = "done" /\ i \in Range(collected)

(* C1: when check_repo_releases returns, the report holds exactly one      *)
(* entry for every descriptor whose releases request answered 200 with at  *)
(* least one release with assets, and no entry for any other descriptor,   *)
(* in every interleaving of the tasks.                                     *)
C1_ReportIsExactlyTheQualifying ==
    Returned =>
        /\ \A i \in Tasks :
              Cardinality(EntriesOf(i)) = IF Qualifies(i) THEN 1 ELSE 0
        /\ \A k \in DOMAIN repos_with_releases :
              \E i \in Tasks : repos_with_releases[k].name = items[i].full_name

(* One descriptor qualifies, the others answered with an empty list,       *)
(* releases without assets, a 403, a 404 or a transport failure.           *)
C1_Witness ==
    /\ mainPc = "returned"
    /\ Len(items) = 2
    /\ Qualifies(2)
    /\ \/ relResp[1].status \in {0, 403, 404}
       \/ relResp[1].status = 200 /\ relResp[1].body = << Release(<<>>) >>
    /\ Len(repos_with_releases) = 1
    /\ collected = << 2, 1 >>

(* C2: in every reachable state every element of the collected result list *)
(* (and of the written report) has releases_count >= 1.                    *)
C2_EveryEntryHasAReleaseWithAssets ==
    /\ \A k \in DOMAIN repos_with_releases :
          repos_with_releases[k].releases_count >= 1
    /\ \A k \in DOMAIN output.repos : output.repos[k].releases_count >= 1

(* A descriptor with only asset-less releases was collected beside an entry *)
C2_Witness ==
    /\ mainPc = "returned"
    /\ Len(repos_with_releases) = 1
    /\ \E i \in Tasks :
          /\ relResp[i].status = 200
          /\ relResp[i].body = << Release(<<>>) >>
          /\ i \in Range(collected)

(* The main thread has ended, normally or by an exception *)
Terminated == mainPc \in {"returned", "exit", "raised"}

(* C3: a failure of one probe task, of any kind, never aborts the batch:   *)
(* every other probe runs to completion, its result is collected, and      *)
(* check_repo_releases returns the aggregate.                              *)
C3_FailureNeverAbortsTheBatch ==
    Terminated => (mainPc # "raised" /\ AllDoneAndCollected)

(* C4: sorting, and the return of the report, happen only after every      *)
(* submitted probe task has completed and its result has been collected.   *)
C4_SortOnlyAfterDrain ==
    mainPc \in {"sort", "print", "returned"} =>
        \A i \in Tasks :
            /\ taskPc[i] = "done"
            /\ result[i] # Pending
            /\ i \in Range(collected)

(* The sort is about to start after two tasks completed, collected in the  *)
(* reverse of their submission order.                                      *)
C4_Witness ==
    /\ mainPc = "sort"
    /\ collected = << 2, 1 >>
    /\ Len(repos_with_releases) = 2

(* Position of task i in the order of collection *)
CollectedAt(i) == CHOOSE k \in DOMAIN collected : collected[k] = i

TaskOf(e) == CHOOSE i \in Tasks : items[i].full_name = e.name

(* the list has been sorted *)
SortDone == mainPc \in {"print", "returned"} \/ (mainPc = "exit" /\ items # <<>>)

(* C5: the returned report is non-increasing in releases_count, and two    *)
(* entries with equal releases_count are in the order in which their       *)
(* results were collected.                                                 *)
C5_SortedDescendingAndStable ==
    SortDone =>
        \A a, b \in DOMAIN repos_with_releases :
            a < b =>
                /\ repos_with_releases[a].releases_count
                      >= repos_with_releases[b].releases_count
                /\ repos_with_releases[a].releases_count
                      = repos_with_releases[b].releases_count
                   => CollectedAt(TaskOf(repos_with_releases[a]))
                         < CollectedAt(TaskOf(repos_with_releases[b]))

(* Two entries tie and the later-submitted one was collected first *)
C5_Witness ==
    /\ mainPc = "returned"
    /\ Len(repos_with_releases) = 2
    /\ repos_with_releases[1].releases_count = repos_with_releases[2].releases_count
    /\ repos_with_releases[1].name = 2
    /\ collected = << 2, 1 >>

(* The Found results in submission order, sorted: the report of the        *)
(* execution in which the futures are collected in submission order.       *)
RECURSIVE FoundInSubmissionOrder(_)
FoundInSubmissionOrder(n) ==
    IF n = 0 THEN <<>>
    ELSE IF Truthy(result[n])
         THEN Append(FoundInSubmissionOrder(n - 1), result[n])
         ELSE FoundInSubmissionOrder(n - 1)

CanonicalReport == SortDesc(FoundInSubmissionOrder(Len(items)))

(* C6 as stated: for fixed descriptors and responses the final ordered     *)
(* report is the same in every execution, whatever the order in which the  *)
(* tasks complete; so it equals the report of the execution that collects  *)
(* in submission order.                                                    *)
C6_ReportOrderIndependentOfCompletion ==
    Returned => repos_with_releases = CanonicalReport

(* C6 as amended: for fixed descriptors and responses every execution      *)
(* returns the same entries with the same sequence of releases_count, so   *)
(* entries with different releases_count are in the same relative order    *)
(* whatever the completion order; only entries with equal releases_count   *)
(* follow the order of collection.                                         *)
C6_ReportSameUpToOrderOfTies ==
    Returned =>
        /\ Len(repos_with_releases) = Len(CanonicalReport)
        /\ Range(repos_with_releases) = Range(CanonicalReport)
        /\ \A k \in DOMAIN repos_with_releases :
              repos_with_releases[k].releases_count = CanonicalReport[k].releases_count

(* Two entries with different counts were collected lowest count first,    *)
(* against the submission order, and are reported highest count first.     *)
C6_Witness ==
    /\ mainPc = "returned"
    /\ Len(repos_with_releases) = 2
    /\ collected = << 2, 1 >>
    /\ repos_with_releases[1].name = 1
    /\ repos_with_releases[1].releases_count > repos_with_releases[2].releases_count

(* C7: given a loaded input and network calls that each answer or time     *)
(* out, the run always terminates and emits the aggregate: once the items  *)
(* are loaded, check_repo_releases eventually returns report and total.    *)
C7_RunAlwaysEmitsAggregate ==
    (mainPc \in {"submit", "collect"}) ~> (mainPc = "returned")

RECURSIVE SumTo(_, _)
SumTo(f, n) == IF n = 0 THEN 0 ELSE f[n] + SumTo(f, n - 1)

(* C8: each descriptor is probed once and yields one result: its task      *)
(* calls the releases endpoint exactly once, the languages endpoint at     *)
(* most once and only afterwards, nothing is retried, and the run issues   *)
(* at most 2N requests for N descriptors.                                  *)
C8_OneProbePerDescriptor ==
    /\ \A i \in Tasks :
          /\ relReq[i] <= 1
          /\ langReq[i] <= 1
          /\ langReq[i] = 1 => (relReq[i] = 1 /\ relResp[i] # NoResp)
          /\ taskPc[i] = "done" => (relReq[i] = 1 /\ result[i] # Pending)
          /\ taskPc[i] # "done" => result[i] = Pending
          /\ relResp[i] # NoResp => relReq[i] = 1
          /\ langResp[i] # NoResp => langReq[i] = 1
    /\ SumTo(relReq, Len(items)) + SumTo(langReq, Len(items)) <= 2 * Len(items)
    /\ \A a, b \in DOMAIN collected : a # b => collected[a] # collected[b]

(* One task ended on a transport failure, another after both requests *)
C8_Witness ==
    /\ AllDoneAndCollected
    /\ \E i, j \in Tasks :
          /\ relResp[i].status = 0 /\ result[i] = ReturnNone
          /\ langReq[j] = 1 /\ langResp[j].status = 0 /\ Truthy(result[j])

Printed(i, m) == \E k \in DOMAIN printed[i] : printed[i][k] = m

InReport(i) == EntriesOf(i) # {}

(* C9: a 403 answer to the releases request is classified as rate-limited, *)
(* reporting the header's value, exactly when the remaining-quota header   *)
(* is present (the value "0" included), and as forbidden otherwise; in     *)
(* both cases the probe yields no report entry.                            *)
C9_Classification403 ==
    \A i \in Tasks :
        relResp[i].status = 403 =>
            /\ relResp[i].remaining \in {"0", "5"} =>
                  /\ outcome[i].kind = "ratelimited"
                  /\ outcome[i].remaining = relResp[i].remaining
                  /\ taskPc[i] \in {"outHeld", "done"} =>
                        Printed(i, Msg("ratelimited", 0, relResp[i].remaining))
                  /\ ~Printed(i, Msg("forbidden", 0, ""))
            /\ relResp[i].remaining = "absent" =>
                  /\ outcome[i].kind = "forbidden"
                  /\ taskPc[i] \in {"outHeld", "done"} =>
                        Printed(i, Msg("forbidden", 0, ""))
                  /\ \A k \in DOMAIN printed[i] : printed[i][k].kind # "ratelimited"
            /\ taskPc[i] = "done" => result[i] = ReturnNone
            /\ langReq[i] = 0
            /\ ~InReport(i)

(* A 403 with header "0" and a 403 without the header, both finished *)
C9_Witness ==
    /\ mainPc = "returned"
    /\ Len(items) = 2
    /\ relResp[1].status = 403 /\ relResp[1].remaining = "0"
    /\ relResp[2].status = 403 /\ relResp[2].remaining = "absent"

(* The languages call of task i failed: transport failure, a status other  *)
(* than 200, an undecodable body, or an entry that cannot be converted.    *)
LanguagesCallFailed(i) ==
    /\ langResp[i] # NoResp
    /\ \/ langResp[i].status # 200
       \/ ~langResp[i].decodable
       \/ \E k \in DOMAIN langResp[i].body : ~langResp[i].body[k].isnum

(* Number of releases with assets in the body task i received *)
AssetReleases(i) ==
    Cardinality({ k \in DOMAIN relResp[i].body : relResp[i].body[k].assets # <<>> })

(* C10: on a Found probe any failure of the languages call leaves the      *)
(* language breakdown empty, and the probe still returns Found with the    *)
(* same releases_count.                                                    *)
C10_LanguagesFailureLeavesBreakdownEmpty ==
    \A i \in Tasks :
        (taskPc[i] = "done" /\ LanguagesCallFailed(i)) =>
            /\ result[i].kind = "found"
            /\ result[i].releases_count = AssetReleases(i)
            /\ result[i].languages = <<>>

(* The body task i received is a list of release objects *)
ListOfReleases(i) ==
    relResp[i].status = 200 /\ \A k \in DOMAIN relResp[i].body : relResp[i].body[k].isobj

(* C11: for a 200 releases response holding a list of releases, Found is   *)
(* returned iff the number of releases with a non-empty asset list is at   *)
(* least 1, and releases_count is that number, not the number of releases. *)
C11_CountIsReleasesWithAssets ==
    \A i \in Tasks :
        ListOfReleases(i) =>
            /\ outcome[i].kind = "found" <=> AssetReleases(i) >= 1
            /\ outcome[i].kind = "found" => outcome[i].count = AssetReleases(i)
            /\ taskPc[i] = "done" =>
                  IF AssetReleases(i) >= 1
                  THEN /\ result[i].kind = "found"
                       /\ result[i].releases_count = AssetReleases(i)
                  ELSE result[i] = ReturnNone

(* A body of three releases, two of them with assets, gave a count of 2;   *)
(* a body of one release without assets gave no entry.                     *)
C11_Witness ==
    /\ Len(items) = 2
    /\ taskPc[1] = "done" /\ taskPc[2] = "done"
    /\ Len(relResp[1].body) = 3 /\ result[1].releases_count = 2
    /\ relResp[2].body = << Release(<<>>) >> /\ result[2] = ReturnNone

(* Positions of a task inside one of its "with print_lock" blocks *)
InsideWithBlock == {"startHeld", "outHeld", "langInfoHeld", "langErrHeld"}

(* C12: a worker writes a progress line only while it holds the print      *)
(* lock, and at that moment no other worker is inside a message of its     *)
(* own or writes a line; the lines of the language block are all written   *)
(* under one and the same acquisition.                                     *)
C12_OneWriterAtATime ==
    [][ \A j \in DOMAIN printed \cap DOMAIN printed' :
          printed'[j] # printed[j] =>
              /\ print_lock \in {0, j}
              /\ print_lock' = j
              /\ printed'[j][Len(printed'[j])].kind = "langline"
                    => /\ print_lock = j
                       /\ printed[j][Len(printed[j])].kind \in {"langheader", "langline"}
              /\ \A k \in (DOMAIN printed) \ {j} :
                    /\ printed'[k] = printed[k]
                    /\ taskPc[k] \notin InsideWithBlock ]_vars

(* Task 1 is in the middle of its two-line language block while task 2     *)
(* waits for the lock to print its outcome.                                *)
C12_Witness ==
    /\ Len(items) = 2
    /\ taskPc[1] = "langInfoHeld" /\ print_lock = 1
    /\ Len(languages_data[1]) = 2 /\ LangLinesPrinted(1) = 1
    /\ taskPc[2] = "outLock"

(* C13: the number of tasks that have started and not finished never      *)
(* exceeds max_workers, and every task waiting in the pool's queue is      *)
(* eventually started and runs to its end.                                 *)
C13_PoolIsBoundedAndDrains ==
    /\ [](Cardinality(Running) <= max_workers)
    /\ \A i \in 1..NumRepos :
          (i \in Tasks /\ taskPc[i] = "queued") ~> (i \in Tasks /\ taskPc[i] = "done")

(* max_workers = 1: task 1 waits for its releases answer, task 2 waits in  *)
(* the queue although it was submitted.                                    *)
C13_Witness ==
    /\ max_workers = 1
    /\ Len(items) = 2
    /\ taskPc[1] = "relWait"
    /\ taskPc[2] = "queued"
    /\ Cardinality(Running) = max_workers

(* The file cannot be read, or it is malformed and the regular expression  *)
(* extracts nothing                                                        *)
LoadFails ==
    \/ file.kind = "unreadable"
    \/ file.kind = "malformed" /\ file.items = <<>>

(* C14: when loading fails the run ends with an empty report and total 0,  *)
(* no task exists and no request is issued, and nothing is written; the    *)
(* load fails exactly for an unreadable file or a malformed one from which *)
(* nothing is extracted; the fallback extraction is used only for a file   *)
(* that json.load rejected.                                                *)
C14_LoadFailureEndsBeforeDispatch ==
    /\ mainPc # "load" => (loadPath = "failed" <=> LoadFails)
    /\ loadPath = "failed" =>
          /\ mainPc \in {"loadfailed", "exit"}
          /\ items = <<>> /\ total = 0 /\ repos_with_releases = <<>>
          /\ taskPc = <<>> /\ relReq = <<>> /\ langReq = <<>>
          /\ ~output.written
    /\ loadPath = "fallback" => file.kind = "malformed"
    /\ loadPath = "json" => file.kind = "json"

(* A malformed file from which nothing was extracted: the run is over and  *)
(* nothing was dispatched.                                                 *)
C14_Witness ==
    /\ file.kind = "malformed"
    /\ loadPath = "failed"
    /\ mainPc = "exit"
    /\ taskPc = <<>>

(* The kinds of outcome message of check_single_repo *)
OutcomeKinds ==
    {"found", "notfound", "ratelimited", "forbidden", "httperror", "transport"}

OutcomeLines(i) == { k \in DOMAIN printed[i] : printed[i][k].kind \in OutcomeKinds }

(* C15: a task that has ended has printed its start line first and, after  *)
(* it, exactly one outcome message, the one of its classification.         *)
C15_StartThenExactlyOneOutcome ==
    \A i \in Tasks :
        taskPc[i] = "done" =>
            /\ Len(printed[i]) >= 2
            /\ printed[i][1] = Msg("start", i, "")
            /\ \A k \in DOMAIN printed[i] : k > 1 => printed[i][k].kind # "start"
            /\ Cardinality(OutcomeLines(i)) = 1
            /\ printed[i][2] = OutcomeMsg(outcome[i])

(* C16: a languages request is issued at most once per descriptor, only    *)
(* after the releases request answered 200 with at least one release with  *)
(* assets, and only for a non-empty languages_url; a task with any other   *)
(* outcome issues none, receives no languages answer and builds no         *)
(* breakdown.                                                              *)
C16_LanguagesOnlyAfterFound ==
    \A i \in Tasks :
        /\ langReq[i] <= 1
        /\ langReq[i] = 1 =>
              /\ relReq[i] = 1
              /\ relResp[i].status = 200
              /\ AssetReleases(i) >= 1
              /\ outcome[i].kind = "found"
              /\ items[i].languages_url # ""
        /\ (langResp[i] # NoResp \/ languages_data[i] # <<>>) => langReq[i] = 1
        /\ outcome[i].kind # "found" =>
              /\ langReq[i] = 0
              /\ langResp[i] = NoResp
              /\ languages_data[i] = <<>>
              /\ taskPc[i] = "done" => result[i].languages = <<>>

(* Task 1 was Found and built a breakdown from its languages answer; task  *)
(* 2 was not found, has a languages_url and never asked for it.            *)
C16_Witness ==
    /\ Len(items) = 2
    /\ taskPc[1] = "done" /\ langReq[1] = 1 /\ languages_data[1] # <<>>
    /\ taskPc[2] = "done" /\ outcome[2].kind = "notfound"
    /\ items[2].languages_url # "" /\ langReq[2] = 0

(* C17: total is the number of descriptors loaded from the moment they are *)
(* loaded, whatever the probes answer; the summary written is found/total  *)
(* with found the number of entries of the report, and found <= total.     *)
C17_SummaryCounts ==
    /\ loadPath \in {"json", "fallback"} => total = Len(file.items)
    /\ total = Len(items)
    /\ Len(repos_with_releases) <= total
    /\ output.written =>
          /\ output.found = Len(output.repos)
          /\ output.repos = repos_with_releases
          /\ output.total = Len(items)
          /\ output.found <= output.total

(* Two descriptors were loaded, one probe was Found and the other was an   *)
(* error: the summary written is 1/2.                                      *)
C17_Witness ==
    /\ output.written
    /\ output.found = 1 /\ output.total = 2
    /\ \E i \in Tasks : outcome[i].kind \in {"ratelimited", "forbidden", "httperror", "transport"}

(* The languages call of task i succeeded: 200 and every value a number *)
LanguagesCallSucceeded(i) ==
    /\ langResp[i].status = 200 /\ langResp[i].decodable
    /\ \A k \in DOMAIN langResp[i].body : langResp[i].body[k].isnum

(* n is the integer nearest to b / BYTES_PER_LINE *)
IsNearest(n, b) ==
    /\ 2 * (b - BYTES_PER_LINE * n) < BYTES_PER_LINE
    /\ 2 * (BYTES_PER_LINE * n - b) < BYTES_PER_LINE

(* C18: after a successful languages call the breakdown has one entry per  *)
(* language of the answer, in its order, with bytes the byte count b of    *)
(* the answer and lines the integer nearest to b / 35; for b = 350 the     *)
(* estimate is 10.                                                         *)
C18_LinesAreBytesOver35Rounded ==
    /\ \A i \in Tasks :
          LanguagesCallSucceeded(i) =>
              /\ Len(languages_data[i]) = Len(langResp[i].body)
              /\ \A k \in DOMAIN languages_data[i] :
                    /\ languages_data[i][k].name = langResp[i].body[k].name
                    /\ languages_data[i][k].bytes = langResp[i].body[k].bytes
                    /\ IsNearest(languages_data[i][k].lines, languages_data[i][k].bytes)
                    /\ languages_data[i][k].bytes = 350 => languages_data[i][k].lines = 10
              /\ taskPc[i] = "done" => result[i].languages = languages_data[i]
    /\ \A b \in 0..MaxBytes : IsNearest(LineCount(b), b)
    /\ LineCount(350) = 10

(* Task 1 returned {Go: 350 bytes, 10 lines}; task 2 returned 52 and 18    *)
(* bytes, both estimated at 1 line (1.49 rounds down, 0.51 rounds up).     *)
C18_Witness ==
    /\ Len(items) = 2
    /\ taskPc[1] = "done" /\ taskPc[2] = "done"
    /\ result[1].languages = << [name |-> "Go", bytes |-> 350, lines |-> 10] >>
    /\ result[2].languages = << [name |-> "Go", bytes |-> 52, lines |-> 1],
                                [name |-> "C", bytes |-> 18, lines |-> 1] >>

(* The locals of check_single_repo for task k *)
LocalsOf(k) ==
    << taskPc[k], relResp[k], langResp[k], outcome[k], languages_data[k],
       result[k], printed[k], relReq[k], langReq[k] >>

(* The step is one of task i's own: its position in check_single_repo or   *)
(* its output changes, from the moment a worker thread has taken it.       *)
WorkerStep(i) ==
    /\ i \in DOMAIN taskPc /\ i \in DOMAIN taskPc'
    /\ taskPc[i] # "unsubmitted"
    /\ LocalsOf(i)' # LocalsOf(i)

(* C19: a step of a worker task changes nothing but that task's locals,    *)
(* the print lock and its progress output: the descriptors, total, the     *)
(* header map, the input file, the result list, the record of collected    *)
(* futures and the written output stay as they are, and so do the locals   *)
(* of every other task.  The result list changes only in steps of the      *)
(* dispatcher (collecting a future, sorting).                              *)
C19_WorkersChangeOnlyLockAndOutput ==
    [][ /\ \A i \in DOMAIN taskPc :
              WorkerStep(i) =>
                  /\ UNCHANGED << items, total, headers, file, max_workers, loadPath,
                                  mainPc, repos_with_releases, collected, output >>
                  /\ \A k \in (DOMAIN taskPc) \ {i} : LocalsOf(k)' = LocalsOf(k)
        /\ repos_with_releases' # repos_with_releases =>
              /\ mainPc \in {"collect", "sort"}
              /\ UNCHANGED taskVars
        /\ mainPc # "load" => UNCHANGED << items, total, headers, file, max_workers >> ]_vars

(* Both tasks have returned a dict; the dispatcher has collected the       *)
(* second only, so the list holds one entry while task 1's dict waits in   *)
(* its future.                                                             *)
C19_Witness ==
    /\ Len(items) = 2
    /\ taskPc[1] = "done" /\ result[1].kind = "found"
    /\ taskPc[2] = "done" /\ result[2].kind = "found"
    /\ collected = << 2 >>
    /\ Len(repos_with_releases) = 1
    /\ headers = {"Authorization"}

(* Positions of a task while one of its requests.get calls is in progress *)
InNetworkCall == {"relWait", "langWait"}

(* C20: a task never holds print_lock while one of its requests is in      *)
(* progress; the lock is held only by a task inside one of its with        *)
(* blocks, never by a task that has ended (by return or by exception);     *)
(* every acquisition is followed by the release; the lock is free when all *)
(* tasks have ended.                                                       *)
C20_LockNeverHeldAcrossNetworkCall ==
    /\ [](\A i \in Tasks :
             /\ taskPc[i] \in InNetworkCall => print_lock # i
             /\ print_lock = i <=> taskPc[i] \in InsideWithBlock
             /\ taskPc[i] = "done" => print_lock # i)
    /\ [](print_lock # 0 => print_lock \in Tasks)
    /\ []((\A i \in Tasks : taskPc[i] = "done") => print_lock = 0)
    /\ \A i \in 1..NumRepos : (print_lock = i) ~> (print_lock # i)

(* Task 1 waits for its releases answer while task 2 holds the lock and    *)
(* prints.                                                                 *)
C20_Witness ==
    /\ Len(items) = 2
    /\ taskPc[1] = "relWait"
    /\ taskPc[2] = "startHeld"
    /\ print_lock = 2

====
